---------------------------- MODULE Spec2Model ----------------------------
(***************************************************************************)
(* Model of the Stripe transactions service (src/app.js): the two request  *)
(* handlers `transactions` and `exportTransactionsToCSV`, the pagination   *)
(* loop `fetchTransactions` and the field mapping `mapTransactionData`.    *)
(*                                                                         *)
(* Every handler is an async function: it runs from one `await` to the     *)
(* next without interruption, so each action below is one such run.  The   *)
(* external call stripeInstance.charges.list is the only await point; the  *)
(* source's answer (a page, or a rejection) is the environment's choice.   *)
(*                                                                         *)
(* Encoding of JavaScript values:                                          *)
(*   - an optional nested object is a sequence of length <= 1              *)
(*     (<<>> = undefined, <<o>> = the object o);                           *)
(*   - an optional string scalar that the code reads as `x || ""` is ""    *)
(*     when absent (undefined, null and "" are alike under `||`);          *)
(*   - a charge id "ch_<n>" is the positive number n, and the cursor's     *)
(*     initial value null is NoCursor;                                     *)
(*   - n / 100 is the pair <<n \div 100, n % 100>> (units, hundredths).    *)
(***************************************************************************)
EXTENDS Integers, Sequences, FiniteSets, TLC

(***************************************************************************)
(* Bounds of the model.                                                    *)
(***************************************************************************)
MaxPageLen == 2      \* records per page of the unconstrained source
MaxCalls == 3        \* pages the unconstrained source lets a request go through
ConcPageLen == 1     \* the same two bounds for the two-request specification
ConcCalls == 2
MaxTotal == 24       \* size of the result set of the paging source

(***************************************************************************)
(* Program constants.                                                      *)
(***************************************************************************)
PageLimit == 10          \* fetchTransactions: params.limit
PreviewLimit == 10000    \* transactions: params.limit
MsPerSecond == 1000      \* getTime() / 1000, created * 1000
MinorPerMajor == 100     \* amount / 100
NoCursor == 0            \* let startingAfter = null
StatusDefault == 200     \* res.send(csv) without res.status(): Express default
StatusBadRequest == 400
StatusServerError == 500
NoStatus == 0            \* no response written

Succeeded == "succeeded"

(***************************************************************************)
(* JavaScript helpers.                                                     *)
(***************************************************************************)
JsUndefined == "<undefined>"

\* x || ""  for a string scalar
OrEmpty(x) == IF x = JsUndefined THEN "" ELSE x

\* o?.f || ""  for an optional object o
Opt(o, f) == IF o = <<>> THEN "" ELSE OrEmpty(o[1][f])

\* n / 100
Div100(n) == <<n \div MinorPerMajor, n % MinorPerMajor>>

\* new Date(seconds * 1000).toISOString()
ToISOString(seconds) == [isoOfMs |-> seconds * MsPerSecond]

\* s.toUpperCase() over the currency codes of the model
ToUpperCase(s) ==
    CASE s = "usd" -> "USD"
      [] s = "eur" -> "EUR"
      [] OTHER -> s


(***************************************************************************)
(* Charge records.  BaseCharge is a charge with every optional nested      *)
(* object absent; the Sample* objects are the nested objects when present. *)
(***************************************************************************)
SampleChecks ==
    [address_line1_check |-> "pass", address_zip_check |-> "pass",
     cvc_check |-> "pass"]

SampleCard(checks) ==
    [id |-> "card_1", name |-> "A Donor", address_line1 |-> "1 Main St",
     address_line2 |-> JsUndefined, address_city |-> "Lahore",
     address_state |-> JsUndefined, address_country |-> "PK",
     address_zip |-> "54000", checks |-> checks, brand |-> "visa",
     exp_month |-> 12, exp_year |-> 2030, fingerprint |-> "fp_1",
     funding |-> "credit", country |-> "PK", last4 |-> "4242",
     tokenization_method |-> JsUndefined]

SamplePaymentMethodDetails(card) ==
    [type |-> "card", link |-> <<>>, card |-> card]

SampleAddress ==
    [line1 |-> "1 Main St", line2 |-> JsUndefined, city |-> "Lahore",
     state |-> JsUndefined, country |-> "PK", postal_code |-> "54000"]

SampleShipping(address) == [name |-> "A Donor", address |-> address]

SampleBillingDetails == [phone |-> "+920000000"]

SampleDispute == [amount |-> 2550, reason |-> "fraudulent", status |-> "lost"]

SampleMetadata ==
    [custom_field_1_key |-> "k1", custom_field_1_value |-> "v1",
     custom_field_2_key |-> JsUndefined, custom_field_2_value |-> JsUndefined,
     custom_field_3_key |-> JsUndefined, custom_field_3_value |-> JsUndefined,
     line_item_summary |-> "1 x Zakat", promotional_consent |-> JsUndefined,
     tos_consent |-> "accepted", utm_campaign |-> JsUndefined,
     utm_content |-> JsUndefined, utm_medium |-> JsUndefined,
     utm_source |-> "web", utm_term |-> JsUndefined,
     Product_Names |-> "Zakat"]

SampleBalanceTransaction == [fee |-> 104, tax |-> JsUndefined]

SampleOutcome == [seller_message |-> "Payment complete."]

SampleRefund == [created |-> 5]

BaseCharge ==
    [id |-> 1, created |-> 1, amount |-> 2550, amount_refunded |-> 0,
     amount_captured |-> 2550, currency |-> "usd", captured |-> TRUE,
     failure_message |-> "", description |-> "", statement_descriptor |-> "",
     payment_intent |-> "pi_1", customer |-> "", receipt_email |-> "",
     invoice |-> "", invoice_number |-> JsUndefined, checkout_session |-> "",
     client_reference_id |-> "", payment_link |-> "", terminal_location |-> "",
     terminal_reader |-> "", application |-> "", destination |-> "",
     transfer |-> "", transfer_group |-> "", application_fee_amount |-> 0,
     status |-> Succeeded, refunded |-> FALSE, refunds |-> <<>>,
     balance_transaction |-> <<>>, payment_method_details |-> <<>>,
     outcome |-> <<>>, billing_details |-> <<>>, shipping |-> <<>>,
     dispute |-> <<>>, metadata |-> <<>>]

\* o?.f  where f is itself an optional object
Sub(o, f) == IF o = <<>> THEN <<>> ELSE o[1][f]

\* o?.f || ""  where f is a number when o is present
OptNum(o, f) == IF o = <<>> THEN "" ELSE o[1][f]

\* charge.refunds.data[0].created  raises a TypeError when charge.refunds is
\* undefined or when data[0] is undefined
RefundLookupRaises(charge) ==
    \/ charge.refunds = <<>>
    \/ charge.refunds[1].data = <<>>

\* The guarded lookup is evaluated only when charge.refunded is truthy.
MapRaises(charge) == charge.refunded /\ RefundLookupRaises(charge)

(***************************************************************************)
(* One element of mapTransactionData's result: the flat record as the      *)
(* sequence of its <<key, value>> entries in insertion order.  Defined for *)
(* charges on which the mapping does not raise.                            *)
(***************************************************************************)
MapCharge(charge) ==
    LET pmd == charge.payment_method_details
        card == Sub(pmd, "card")
        checks == Sub(card, "checks")
        link == Sub(pmd, "link")
        bt == charge.balance_transaction
        ship == charge.shipping
        addr == Sub(ship, "address")
        md == charge.metadata
    IN << <<"ID", charge.id>>,
          <<"Created date (UTC)", ToISOString(charge.created)>>,
          <<"Amount", Div100(charge.amount)>>,
          <<"Amount Refunded", Div100(charge.amount_refunded)>>,
          <<"Currency", ToUpperCase(charge.currency)>>,
          <<"Captured", charge.captured>>,
          <<"Converted Amount", Div100(charge.amount_captured)>>,
          <<"Converted Amount Refunded", Div100(charge.amount_refunded)>>,
          <<"Converted Currency", ToUpperCase(charge.currency)>>,
          <<"Decline Reason", OrEmpty(charge.failure_message)>>,
          <<"Description", OrEmpty(charge.description)>>,
          <<"Fee", IF bt # <<>> THEN Div100(bt[1].fee) ELSE "">>,
          <<"Is Link", IF pmd = <<>> THEN FALSE ELSE pmd[1].type = "link">>,
          <<"Link Funding", Opt(link, "funding")>>,
          <<"Mode", IF charge.payment_intent # "" THEN "payment_intent"
                    ELSE "charge">>,
          <<"PaymentIntent ID", OrEmpty(charge.payment_intent)>>,
          <<"Payment Source Type", Opt(pmd, "type")>>,
          <<"Refunded date (UTC)",
            IF charge.refunded
            THEN ToISOString(charge.refunds[1].data[1].created)
            ELSE "">>,
          <<"Statement Descriptor", OrEmpty(charge.statement_descriptor)>>,
          <<"Status", charge.status>>,
          <<"Seller Message", Opt(charge.outcome, "seller_message")>>,
          <<"Taxes On Fee", IF bt # <<>> THEN OrEmpty(bt[1].tax) ELSE "">>,
          <<"Card ID", Opt(card, "id")>>,
          <<"Card Name", Opt(card, "name")>>,
          <<"Card Address Line1", Opt(card, "address_line1")>>,
          <<"Card Address Line2", Opt(card, "address_line2")>>,
          <<"Card Address City", Opt(card, "address_city")>>,
          <<"Card Address State", Opt(card, "address_state")>>,
          <<"Card Address Country", Opt(card, "address_country")>>,
          <<"Card Address Zip", Opt(card, "address_zip")>>,
          <<"Card AVS Line1 Status", Opt(checks, "address_line1_check")>>,
          <<"Card AVS Zip Status", Opt(checks, "address_zip_check")>>,
          <<"Card Brand", Opt(card, "brand")>>,
          <<"Card CVC Status", Opt(checks, "cvc_check")>>,
          <<"Card Exp Month", OptNum(card, "exp_month")>>,
          <<"Card Exp Year", OptNum(card, "exp_year")>>,
          <<"Card Fingerprint", Opt(card, "fingerprint")>>,
          <<"Card Funding", Opt(card, "funding")>>,
          <<"Card Issue Country", Opt(card, "country")>>,
          <<"Card Last4", Opt(card, "last4")>>,
          <<"Card Tokenization Method", Opt(card, "tokenization_method")>>,
          <<"Customer ID", OrEmpty(charge.customer)>>,
          <<"Customer Description",
            IF charge.customer # "" THEN JsUndefined ELSE "">>,
          <<"Customer Email", OrEmpty(charge.receipt_email)>>,
          <<"Customer Phone", Opt(charge.billing_details, "phone")>>,
          <<"Shipping Name", Opt(ship, "name")>>,
          <<"Shipping Address Line1", Opt(addr, "line1")>>,
          <<"Shipping Address Line2", Opt(addr, "line2")>>,
          <<"Shipping Address City", Opt(addr, "city")>>,
          <<"Shipping Address State", Opt(addr, "state")>>,
          <<"Shipping Address Country", Opt(addr, "country")>>,
          <<"Shipping Address Postal Code", Opt(addr, "postal_code")>>,
          <<"Disputed Amount", IF charge.dispute # <<>>
                               THEN Div100(charge.dispute[1].amount) ELSE "">>,
          <<"Dispute Reason", IF charge.dispute # <<>>
                              THEN charge.dispute[1].reason ELSE "">>,
          <<"Dispute Status", IF charge.dispute # <<>>
                              THEN charge.dispute[1].status ELSE "">>,
          <<"Invoice ID", OrEmpty(charge.invoice)>>,
          <<"Invoice Number", IF charge.invoice # ""
                              THEN charge.invoice_number ELSE "">>,
          <<"Checkout Session ID", OrEmpty(charge.checkout_session)>>,
          <<"Checkout Custom Field 1 Key", Opt(md, "custom_field_1_key")>>,
          <<"Checkout Custom Field 1 Value", Opt(md, "custom_field_1_value")>>,
          <<"Checkout Custom Field 2 Key", Opt(md, "custom_field_2_key")>>,
          <<"Checkout Custom Field 2 Value", Opt(md, "custom_field_2_value")>>,
          <<"Checkout Custom Field 3 Key", Opt(md, "custom_field_3_key")>>,
          <<"Checkout Custom Field 3 Value", Opt(md, "custom_field_3_value")>>,
          <<"Checkout Line Item Summary", Opt(md, "line_item_summary")>>,
          <<"Checkout Promotional Consent", Opt(md, "promotional_consent")>>,
          <<"Checkout Terms of Service Consent", Opt(md, "tos_consent")>>,
          <<"Client Reference ID", OrEmpty(charge.client_reference_id)>>,
          <<"Payment Link ID", OrEmpty(charge.payment_link)>>,
          <<"UTM Campaign", Opt(md, "utm_campaign")>>,
          <<"UTM Content", Opt(md, "utm_content")>>,
          <<"UTM Medium", Opt(md, "utm_medium")>>,
          <<"UTM Source", Opt(md, "utm_source")>>,
          <<"UTM Term", Opt(md, "utm_term")>>,
          <<"Terminal Location ID", OrEmpty(charge.terminal_location)>>,
          <<"Terminal Reader ID", OrEmpty(charge.terminal_reader)>>,
          <<"Application Fee", IF charge.application_fee_amount = 0 THEN ""
                               ELSE Div100(charge.application_fee_amount)>>,
          <<"Application ID", OrEmpty(charge.application)>>,
          <<"Destination", OrEmpty(charge.destination)>>,
          <<"Transfer", OrEmpty(charge.transfer)>>,
          <<"Transfer Group", OrEmpty(charge.transfer_group)>>,
          <<"Fund", Opt(md, "Product_Names")>> >>

(***************************************************************************)
(* mapTransactionData(charges): charges.map(...).  The callback raises on  *)
(* the first charge whose refund lookup fails, and the whole call raises.  *)
(***************************************************************************)
mapTransactionData(cs) ==
    IF \E i \in 1..Len(cs) : MapRaises(cs[i])
    THEN [raised |-> TRUE, value |-> <<>>]
    ELSE [raised |-> FALSE, value |-> [i \in 1..Len(cs) |-> MapCharge(cs[i])]]

\* Variant of FilterSucceeded without the final filter.
FilterSucceededOmitted(cs) == cs

\* charges.filter((charge) => charge.status === "succeeded")
FilterSucceeded(cs) ==
    LET kept[i \in 0..Len(cs)] ==
            IF i = 0 THEN <<>>
            ELSE IF cs[i].status = Succeeded THEN Append(kept[i - 1], cs[i])
                 ELSE kept[i - 1]
    IN kept[Len(cs)]


(***************************************************************************)
(* Query strings and date parsing.  new Date(s).getTime() is a table over  *)
(* the date strings of the model; any other string parses to NaN.          *)
(***************************************************************************)
DateEarly == "1970-01-01T00:00:00.999Z"
DateLate == "1970-01-01T00:00:02.000Z"

DateTable == (DateEarly :> 999) @@ (DateLate :> 2000)

QueryValues == {JsUndefined, "", "not-a-date", DateEarly, DateLate}

\* !x  for a query value
Falsy(x) == x = JsUndefined \/ x = ""

\* isNaN(new Date(s).getTime())
DateIsNaN(s) == s \notin DOMAIN DateTable

\* new Date(s).getTime()  for a string that parses
GetTime(s) == DateTable[s]

\* Math.floor(d.getTime() / 1000)
ToUTCSeconds(s) == GetTime(s) \div MsPerSecond

MsgStartRequired == "startDate is required"
MsgEndRequired == "endDate is required"
MsgInvalid == "Both dates must be valid."
MsgOrder == "endDate must be greater than or equal to startDate"
MsgServerError == "An error occurred while fetching transactions"

\* Variant of ValidationError without the endDate presence check: a missing
\* endDate is reported by the validity check.
ValidationErrorNoEndCheck(q) ==
    IF Falsy(q.startDate) THEN MsgStartRequired
    ELSE IF DateIsNaN(q.startDate) \/ DateIsNaN(q.endDate) THEN MsgInvalid
    ELSE IF GetTime(q.endDate) < GetTime(q.startDate) THEN MsgOrder
    ELSE ""

(***************************************************************************)
(* The validation both handlers start with: the message of the 400         *)
(* response the handler returns, or "" when every check passes.            *)
(***************************************************************************)
ValidationError(q) ==
    IF Falsy(q.startDate) THEN MsgStartRequired
    ELSE IF Falsy(q.endDate) THEN MsgEndRequired
    ELSE IF DateIsNaN(q.startDate) \/ DateIsNaN(q.endDate) THEN MsgInvalid
    ELSE IF GetTime(q.endDate) < GetTime(q.startDate) THEN MsgOrder
    ELSE ""

(***************************************************************************)
(* Responses.  status = NoStatus means nothing has been written.           *)
(***************************************************************************)
NoResponse == [status |-> NoStatus, error |-> "", json |-> <<>>, csv |-> <<>>]

\* res.status(code).json({ error: msg })
JsonError(code, msg) ==
    [status |-> code, error |-> msg, json |-> <<>>, csv |-> <<>>]

\* res.status(200).json(response)
JsonOk(response) ==
    [status |-> StatusDefault, error |-> "", json |-> <<response>>, csv |-> <<>>]

\* Object.keys(flat)
ObjectKeys(flat) == [i \in 1..Len(flat) |-> flat[i][1]]

\* new Parser({ fields }).parse(mappedData); res.send(csv)
SendCsv(fields, mappedData) ==
    [status |-> StatusDefault, error |-> "", json |-> <<>>,
     csv |-> <<[fields |-> fields, rows |-> mappedData]>>]

(***************************************************************************)
(* Parameters of one stripeInstance.charges.list call.                     *)
(***************************************************************************)
\* transactions: the starting_after line is commented out
PreviewParams(q) ==
    [created |-> [gte |-> ToUTCSeconds(q.startDate),
                  lte |-> ToUTCSeconds(q.endDate)],
     limit |-> PreviewLimit, status |-> Succeeded, starting_after |-> <<>>]

\* fetchTransactions: starting_after is added only if startingAfter is truthy
ListParams(startDate, endDate, cursor) ==
    [created |-> [gte |-> startDate, lte |-> endDate],
     limit |-> PageLimit, status |-> Succeeded,
     starting_after |-> IF cursor # NoCursor THEN <<cursor>> ELSE <<>>]

\* The answer of a call: a list object, or a rejection.
Rejection == [ok |-> FALSE, data |-> <<>>, has_more |-> FALSE]
ListObject(data, more) == [ok |-> TRUE, data |-> data, has_more |-> more]

(***************************************************************************)
(* State.  Every variable but catalog, total, mapIn and mapOut is a        *)
(* function of the request.                                                *)
(***************************************************************************)
VARIABLES
    req,            \* the request: endpoint and query
    pc,             \* "received", "awaiting" (suspended at await), "done"
    hasMore,        \* fetchTransactions: let hasMore
    charges,        \* fetchTransactions: let charges
    startingAfter,  \* fetchTransactions: let startingAfter
    pending,        \* charges.list calls issued and not yet answered
    calls,          \* history: parameters of every call issued
    pages,          \* history: every answer received
    fetched,        \* exportTransactionsToCSV: const transactions, once set
    res,            \* the response written
    threw,          \* the handler's promise rejected (nothing caught it)
    catalog,        \* the charges the unconstrained source holds
    total,          \* size of the paging source's result set
    mapIn,          \* input of a stand-alone mapTransactionData call
    mapOut          \* its outcome

vars == <<req, pc, hasMore, charges, startingAfter, pending, calls, pages,
          fetched, res, threw, catalog, total, mapIn, mapOut>>

Reqs == DOMAIN pc

\* No run of the model issues more calls than this for one request.
CallCap == MaxCalls + (MaxTotal \div PageLimit) + 2

Last(s) == s[Len(s)]


(***************************************************************************)
(* fetchTransactions, one loop iteration after the await (lines 96-104).   *)
(***************************************************************************)
\* Variant of Accumulate that assigns the page instead of concatenating it.
AccumulateOverwrites(cs, response) == response.data

\* charges = charges.concat(response.data)
Accumulate(cs, response) == cs \o response.data

\* Variant of LoopHasMore without the else branch of line 102.
LoopHasMoreUnguarded(response) == response.has_more

\* hasMore = response.has_more; an empty page forces hasMore = false
LoopHasMore(response) ==
    IF Len(response.data) > 0 THEN response.has_more ELSE FALSE

\* Variant of NextCursor that never advances the cursor.
NextCursorStuck(cursor, response) == cursor

\* Variant of NextCursor that sets the cursor from the first page only.
NextCursorFirstPageOnly(cursor, response) ==
    IF cursor = NoCursor /\ Len(response.data) > 0
    THEN Last(response.data).id
    ELSE cursor

\* startingAfter = response.data[response.data.length - 1].id, if any
NextCursor(cursor, response) ==
    IF Len(response.data) > 0 THEN Last(response.data).id ELSE cursor

\* Variant of StoreCharges with `charges` a module-level variable shared by
\* all requests.
StoreChargesShared(r, cs) == [q \in Reqs |-> cs]

\* The locals are per call of fetchTransactions, hence per request.
StoreCharges(r, cs) == [charges EXCEPT ![r] = cs]

\* Variant of ExportOutcome that sends an empty document for no records.
ExportOutcomeEmptyDocument(ts) ==
    LET mappedData == mapTransactionData(ts)
    IN IF mappedData.raised THEN [res |-> NoResponse, threw |-> TRUE]
       ELSE IF mappedData.value = <<>>
            THEN [res |-> SendCsv(<<>>, <<>>), threw |-> FALSE]
       ELSE [res |-> SendCsv(ObjectKeys(mappedData.value[1]), mappedData.value),
             threw |-> FALSE]

(***************************************************************************)
(* exportTransactionsToCSV after fetchTransactions returned (lines         *)
(* 246-251): what is written to res, and whether the handler raised.       *)
(* Object.keys(mappedData[0]) raises a TypeError when mappedData is empty. *)
(***************************************************************************)
ExportOutcome(ts) ==
    LET mappedData == mapTransactionData(ts)
    IN IF mappedData.raised THEN [res |-> NoResponse, threw |-> TRUE]
       ELSE IF mappedData.value = <<>> THEN [res |-> NoResponse, threw |-> TRUE]
       ELSE [res |-> SendCsv(ObjectKeys(mappedData.value[1]), mappedData.value),
             threw |-> FALSE]

(***************************************************************************)
(* Handlers, from the request to the first await.                          *)
(***************************************************************************)
\* transactions(req, res), lines 20-63
transactions(r) ==
    /\ pc[r] = "received"
    /\ req[r].endpoint = "transactions"
    /\ LET err == ValidationError(req[r].query)
       IN IF err # ""
          THEN /\ res' = [res EXCEPT ![r] = JsonError(StatusBadRequest, err)]
               /\ pc' = [pc EXCEPT ![r] = "done"]
               /\ UNCHANGED <<pending, calls>>
          ELSE /\ pending' = [pending EXCEPT
                                ![r] = Append(@, PreviewParams(req[r].query))]
               /\ calls' = [calls EXCEPT
                              ![r] = Append(@, PreviewParams(req[r].query))]
               /\ pc' = [pc EXCEPT ![r] = "awaiting"]
               /\ UNCHANGED res
    /\ UNCHANGED <<req, hasMore, charges, startingAfter, pages, fetched, threw,
                   catalog, total, mapIn, mapOut>>

\* exportTransactionsToCSV(req, res), lines 216-245, into fetchTransactions
\* up to its first await (lines 75-94)
exportTransactionsToCSV(r) ==
    /\ pc[r] = "received"
    /\ req[r].endpoint = "exportTransactionsToCSV"
    /\ LET err == ValidationError(req[r].query)
           first == ListParams(ToUTCSeconds(req[r].query.startDate),
                               ToUTCSeconds(req[r].query.endDate), NoCursor)
       IN IF err # ""
          THEN /\ res' = [res EXCEPT ![r] = JsonError(StatusBadRequest, err)]
               /\ pc' = [pc EXCEPT ![r] = "done"]
               /\ UNCHANGED <<pending, calls>>
          ELSE /\ pending' = [pending EXCEPT ![r] = Append(@, first)]
               /\ calls' = [calls EXCEPT ![r] = Append(@, first)]
               /\ pc' = [pc EXCEPT ![r] = "awaiting"]
               /\ UNCHANGED res
    /\ UNCHANGED <<req, hasMore, charges, startingAfter, pages, fetched, threw,
                   catalog, total, mapIn, mapOut>>

(***************************************************************************)
(* Handlers, resumed with the answer of the awaited call.                  *)
(***************************************************************************)
\* transactions, lines 63-70: the try/catch turns a rejection into a 500
transactionsResume(r, response) ==
    /\ pending' = [pending EXCEPT ![r] = Tail(@)]
    /\ res' = [res EXCEPT ![r] =
                 IF response.ok THEN JsonOk(response)
                 ELSE JsonError(StatusServerError, MsgServerError)]
    /\ pc' = [pc EXCEPT ![r] = "done"]
    /\ UNCHANGED <<hasMore, charges, startingAfter, calls, fetched, threw>>

\* fetchTransactions, lines 94-107, and the rest of exportTransactionsToCSV,
\* lines 245-251.  Nothing catches a rejection of the awaited call.
fetchTransactionsResume(r, response) ==
    IF ~response.ok
    THEN /\ pending' = [pending EXCEPT ![r] = Tail(@)]
         /\ threw' = [threw EXCEPT ![r] = TRUE]
         /\ pc' = [pc EXCEPT ![r] = "done"]
         /\ UNCHANGED <<hasMore, charges, startingAfter, calls, fetched, res>>
    ELSE \E cs \in {Accumulate(charges[r], response)} :
           LET more == LoopHasMore(response)
               cursor == NextCursor(startingAfter[r], response)
               params == ListParams(Head(pending[r]).created.gte,
                                    Head(pending[r]).created.lte, cursor)
           IN /\ charges' = StoreCharges(r, cs)
              /\ hasMore' = [hasMore EXCEPT ![r] = more]
              /\ startingAfter' = [startingAfter EXCEPT ![r] = cursor]
              /\ IF more
                 THEN /\ Len(calls[r]) < CallCap
                      /\ pending' = [pending EXCEPT ![r] = Append(Tail(@), params)]
                      /\ calls' = [calls EXCEPT ![r] = Append(@, params)]
                      /\ UNCHANGED <<pc, fetched, res, threw>>
                 ELSE \E ts \in {FilterSucceeded(cs)} :
                      \E out \in {ExportOutcome(ts)} :
                         /\ pending' = [pending EXCEPT ![r] = Tail(@)]
                         /\ fetched' = [fetched EXCEPT ![r] = <<ts>>]
                         /\ res' = [res EXCEPT ![r] = out.res]
                         /\ threw' = [threw EXCEPT ![r] = out.threw]
                         /\ pc' = [pc EXCEPT ![r] = "done"]
                         /\ UNCHANGED calls

\* The event loop resumes the handler that awaits the answered call.
Resume(r, response) ==
    /\ pc[r] = "awaiting"
    /\ pending[r] # <<>>
    /\ pages' = [pages EXCEPT ![r] = Append(@, response)]
    /\ IF req[r].endpoint = "transactions"
       THEN transactionsResume(r, response)
       ELSE fetchTransactionsResume(r, response)
    /\ UNCHANGED <<req, catalog, total, mapIn, mapOut>>

(***************************************************************************)
(* The external source, stripeInstance.charges.list.                       *)
(***************************************************************************)
\* Charges an unconstrained source may put in a page: one that matches the
\* filters of every call with gte <= 1 <= lte, one that is not succeeded,
\* and one created outside every range, refunded, with an empty refunds list.
CatalogCharges ==
    << BaseCharge,
       [BaseCharge EXCEPT !.id = 2, !.status = "failed"],
       [BaseCharge EXCEPT !.id = 3, !.created = 3, !.refunded = TRUE,
                          !.refunds = <<[data |-> <<>>]>>] >>

\* The source holds all but one of them.
Catalogs == {c \in SUBSET DOMAIN CatalogCharges :
               Cardinality(c) = Len(CatalogCharges) - 1}

\* All sequences of length at most n over the charges the source holds.
RECURSIVE SeqsUpTo(_)
SeqsUpTo(n) ==
    IF n = 0 THEN {<<>>}
    ELSE LET shorter == SeqsUpTo(n - 1)
         IN shorter \cup {Append(s, CatalogCharges[i]) :
                            s \in shorter, i \in catalog}

\* The call is answered with any page, in any order, with any has_more;
\* after maxCalls calls of a request the source stops reporting more.
SourceAnswers(r, maxLen, maxCalls) ==
    \E data \in SeqsUpTo(maxLen), more \in BOOLEAN :
        /\ more => Len(calls[r]) < maxCalls
        /\ \E response \in {ListObject(data, more)} : Resume(r, response)

\* The call fails (network error, API error).
SourceRejects(r) == Resume(r, Rejection)

\* A source that honours the contract of the list API over a result set of
\* `total` succeeded charges created at the start of the range, with ids
\* 1..total in listing order: the records strictly after the cursor, at most
\* `limit` of them, and has_more exactly when records remain.
PagedAnswer(params) ==
    LET after == IF params.starting_after = <<>> THEN 0
                 ELSE params.starting_after[1]
        upto == IF after + params.limit < total THEN after + params.limit
                ELSE total
    IN ListObject([i \in 1..(upto - after) |->
                      [BaseCharge EXCEPT !.id = after + i,
                                         !.created = params.created.gte]],
                  upto < total)

SourcePages(r) ==
    /\ pending[r] # <<>>
    /\ \E response \in {PagedAnswer(Head(pending[r]))} : Resume(r, response)

(***************************************************************************)
(* A stand-alone call of mapTransactionData on one charge.                 *)
(***************************************************************************)
NotMapped == [done |-> FALSE, raised |-> FALSE, value |-> <<>>]

MapOne ==
    /\ ~mapOut.done
    /\ mapOut' = [done |-> TRUE] @@ mapTransactionData(<<mapIn>>)
    /\ UNCHANGED <<req, pc, hasMore, charges, startingAfter, pending, calls,
                   pages, fetched, res, threw, catalog, total, mapIn>>


(***************************************************************************)
(* Initial states and specifications.                                      *)
(***************************************************************************)
Endpoints == {"transactions", "exportTransactionsToCSV"}

Queries == [startDate : QueryValues, endDate : QueryValues]

ValidQueries == {q \in Queries : ValidationError(q) = ""}

\* The state of the handlers when the requests in ids have arrived.
Arrived(ids) ==
    /\ pc = [r \in ids |-> "received"]
    /\ hasMore = [r \in ids |-> TRUE]
    /\ charges = [r \in ids |-> <<>>]
    /\ startingAfter = [r \in ids |-> NoCursor]
    /\ pending = [r \in ids |-> <<>>]
    /\ calls = [r \in ids |-> <<>>]
    /\ pages = [r \in ids |-> <<>>]
    /\ fetched = [r \in ids |-> <<>>]
    /\ res = [r \in ids |-> NoResponse]
    /\ threw = [r \in ids |-> FALSE]

NoMapCall == mapIn = BaseCharge /\ mapOut = NotMapped

\* One request with any query, against an unconstrained source.
Init ==
    /\ req \in [{1} -> [endpoint : Endpoints, query : Queries]]
    /\ Arrived({1})
    /\ catalog \in Catalogs
    /\ total = 0
    /\ NoMapCall

Next ==
    \/ \E r \in Reqs : transactions(r)
    \/ \E r \in Reqs : exportTransactionsToCSV(r)
    \/ \E r \in Reqs :
          SourceAnswers(r, MaxPageLen, MaxCalls)
    \/ \E r \in Reqs : SourceRejects(r)

Spec == Init /\ [][Next]_vars

\* Two requests in flight at once, their answers interleaved in any order.
InitConc ==
    /\ req \in [{1, 2} -> [endpoint : Endpoints,
                           query : {[startDate |-> DateEarly,
                                     endDate |-> DateLate]}]]
    /\ Arrived({1, 2})
    /\ catalog = {1, 2}
    /\ total = 0
    /\ NoMapCall

NextConc ==
    \/ \E r \in Reqs : transactions(r)
    \/ \E r \in Reqs : exportTransactionsToCSV(r)
    \/ \E r \in Reqs : SourceAnswers(r, ConcPageLen, ConcCalls)
    \/ \E r \in Reqs : SourceRejects(r)

SpecConc == InitConc /\ [][NextConc]_vars

\* One request with a valid query, against the paging source.  Every call is
\* answered and the event loop resumes the handler: weak fairness.
InitPaged ==
    /\ req \in [{1} -> [endpoint : Endpoints, query : ValidQueries]]
    /\ Arrived({1})
    /\ catalog = {}
    /\ total \in 0..MaxTotal
    /\ NoMapCall

NextPaged ==
    \/ \E r \in Reqs : transactions(r)
    \/ \E r \in Reqs : exportTransactionsToCSV(r)
    \/ \E r \in Reqs : SourcePages(r)

SpecPaged == InitPaged /\ [][NextPaged]_vars /\ WF_vars(NextPaged)

\* mapTransactionData alone, on a charge with any subset of its optional
\* nested data.
OptionalOf(x) == {<<>>, <<x>>}

ChargeInputs ==
    { [BaseCharge EXCEPT !.payment_method_details = pmd, !.shipping = sh,
                         !.billing_details = bd, !.dispute = di,
                         !.metadata = md, !.balance_transaction = bt,
                         !.outcome = oc, !.refunded = rf, !.refunds = rs] :
        pmd \in {<<>>} \cup
                {<<SamplePaymentMethodDetails(card)>> :
                   card \in {<<>>} \cup
                            {<<SampleCard(ck)>> : ck \in OptionalOf(SampleChecks)}},
        sh \in {<<>>} \cup
               {<<SampleShipping(a)>> : a \in OptionalOf(SampleAddress)},
        bd \in OptionalOf(SampleBillingDetails),
        di \in OptionalOf(SampleDispute),
        md \in OptionalOf(SampleMetadata),
        bt \in OptionalOf(SampleBalanceTransaction),
        oc \in OptionalOf(SampleOutcome),
        rf \in BOOLEAN,
        rs \in {<<>>, <<[data |-> <<>>]>>, <<[data |-> <<SampleRefund>>]>>} }

InitMap ==
    /\ req = <<>>
    /\ Arrived({})
    /\ catalog = {}
    /\ total = 0
    /\ mapIn \in ChargeInputs
    /\ mapOut = NotMapped

NextMap == MapOne

SpecMap == InitMap /\ [][NextMap]_vars


(***************************************************************************)
(* Properties.                                                             *)
(***************************************************************************)
IsExport(r) == req[r].endpoint = "exportTransactionsToCSV"

IsSucceeded(c) == c.status = Succeeded

\* The records of the pages ps, in the order received.
RECURSIVE ConcatData(_)
ConcatData(ps) ==
    IF ps = <<>> THEN <<>> ELSE Head(ps).data \o ConcatData(Tail(ps))

\* The number of succeeded records in the pages ps.
RECURSIVE SucceededCount(_)
SucceededCount(ps) ==
    IF ps = <<>> THEN 0
    ELSE Cardinality({i \in 1..Len(Head(ps).data) : IsSucceeded(Head(ps).data[i])})
         + SucceededCount(Tail(ps))

\* The range of the request in whole epoch seconds, from the date table.
RangeStart(r) == DateTable[req[r].query.startDate] \div MsPerSecond
RangeEnd(r) == DateTable[req[r].query.endDate] \div MsPerSecond

Missing(x) == x \in {JsUndefined, ""}
Parsable(x) == x \in {DateEarly, DateLate}

\* C1: on both endpoints a finished request got a 400 with the message of the
\* first failing check, in the order: startDate missing, endDate missing,
\* either date unparsable, endDate < startDate; a request whose dates are both
\* valid with start <= end never gets a 400.
ValidationAnswers400InOrder ==
    \A r \in Reqs :
        pc[r] = "done" =>
            LET s == req[r].query.startDate
                e == req[r].query.endDate
                bad(msg) == res[r] = [status |-> StatusBadRequest, error |-> msg,
                                      json |-> <<>>, csv |-> <<>>]
            IN /\ Missing(s) => bad("startDate is required")
               /\ ~Missing(s) /\ Missing(e) => bad("endDate is required")
               /\ ~Missing(s) /\ ~Missing(e) /\ (~Parsable(s) \/ ~Parsable(e))
                    => bad("Both dates must be valid.")
               /\ Parsable(s) /\ Parsable(e) /\ DateTable[e] < DateTable[s]
                    => bad("endDate must be greater than or equal to startDate")
               /\ Parsable(s) /\ Parsable(e) /\ DateTable[s] <= DateTable[e]
                    => res[r].status # StatusBadRequest

\* An export request with a present but unparsable startDate and no endDate was
\* answered "endDate is required": the earlier check decided.
ValidationWitness ==
    \E r \in Reqs :
        /\ IsExport(r)
        /\ req[r].query = [startDate |-> "not-a-date", endDate |-> JsUndefined]
        /\ pc[r] = "done"
        /\ res[r].status = StatusBadRequest
        /\ res[r].error = MsgEndRequired

\* C2: a validated request one of whose charge-listing calls failed is answered
\* with a 500 and the generic message, fetches no further page and sends no
\* partial result.
FailedCallAnswered500 ==
    \A r \in Reqs :
        (pc[r] = "done" /\ \E i \in 1..Len(pages[r]) : ~pages[r][i].ok) =>
            /\ res[r] = [status |-> StatusServerError, error |-> MsgServerError,
                         json |-> <<>>, csv |-> <<>>]
            /\ ~Last(pages[r]).ok
            /\ Len(calls[r]) = Len(pages[r])
            /\ pending[r] = <<>>

\* C3: an export whose collection step yields zero succeeded charges ends
\* without any response: the header derivation raises and nothing catches it.
EmptyExportSendsNothing ==
    \A r \in Reqs :
        (IsExport(r) /\ fetched[r] = << <<>> >>) =>
            /\ pc[r] = "done"
            /\ threw[r]
            /\ res[r] = NoResponse

\* The source returned a page, none of its records succeeded, and the export
\* ended with nothing sent.
EmptyExportWitness ==
    \E r \in Reqs :
        /\ IsExport(r)
        /\ fetched[r] = << <<>> >>
        /\ ConcatData(pages[r]) # <<>>
        /\ pc[r] = "done"
        /\ res[r].status = NoStatus

\* C4: against a source that returns full pages of PageLimit records while more
\* remain, resumes strictly after the cursor and reports has_more = false on
\* the last page, fetchTransactions issues at most total / PageLimit + 1 calls
\* and the request terminates.
TerminatesWithinCallBound ==
    /\ [](\A r \in Reqs : Len(calls[r]) <= (total \div PageLimit) + 1)
    /\ <>(\A r \in Reqs : pc[r] = "done")

\* Pages of 10, 10 and 4 records: three calls, 24 charges collected.
ThreePagesWitness ==
    \E r \in Reqs :
        /\ IsExport(r)
        /\ total = 24
        /\ pc[r] = "done"
        /\ Len(calls[r]) = 3
        /\ Len(pages[r][1].data) = 10 /\ pages[r][1].has_more
        /\ Len(pages[r][2].data) = 10 /\ pages[r][2].has_more
        /\ Len(pages[r][3].data) = 4 /\ ~pages[r][3].has_more
        /\ Len(fetched[r][1]) = 24

\* C5: a page with has_more = true and no records ends the loop: no further
\* call is issued and the records of the earlier pages are returned.
EmptyPageEndsLoop ==
    \A r \in Reqs :
        (/\ IsExport(r)
         /\ pages[r] # <<>>
         /\ Last(pages[r]).ok
         /\ Last(pages[r]).data = <<>>
         /\ Last(pages[r]).has_more) =>
            /\ pc[r] = "done"
            /\ pending[r] = <<>>
            /\ Len(calls[r]) = Len(pages[r])
            /\ ~hasMore[r]
            /\ fetched[r] =
                 <<SelectSeq(ConcatData(SubSeq(pages[r], 1, Len(pages[r]) - 1)),
                             IsSucceeded)>>

\* A non-empty page, then an empty page with has_more = true: the loop ended
\* and the first page's succeeded records were returned.
EmptyPageWitness ==
    \E r \in Reqs :
        /\ IsExport(r)
        /\ Len(pages[r]) = 2
        /\ pages[r][2] = ListObject(<<>>, TRUE)
        /\ pc[r] = "done"
        /\ fetched[r] # <<>>
        /\ fetched[r][1] # <<>>

\* C6: fetchTransactions returns the concatenation, in fetch order and with
\* within-page order kept, of the records of the pages up to and including the
\* first page with has_more = false or with no records, restricted to the
\* succeeded ones; its length is the sum of the pages' succeeded counts.
ResultIsConcatenationOfPages ==
    \A r \in Reqs :
        (IsExport(r) /\ fetched[r] # <<>>) =>
            /\ fetched[r][1] = SelectSeq(ConcatData(pages[r]), IsSucceeded)
            /\ Len(fetched[r][1]) = SucceededCount(pages[r])
            /\ \A i \in 1..Len(pages[r]) :
                  (i < Len(pages[r])) <=>
                      (pages[r][i].has_more /\ pages[r][i].data # <<>>)

\* Three pages, a failed record among succeeded ones, and a result of three
\* or more records.
ConcatenationWitness ==
    \E r \in Reqs :
        /\ IsExport(r)
        /\ fetched[r] # <<>>
        /\ Len(pages[r]) = 3
        /\ Len(fetched[r][1]) >= 3
        /\ Len(fetched[r][1]) < Len(ConcatData(pages[r]))
        /\ pages[r][1].data # pages[r][2].data

\* C7 as stated: every element returned by fetchTransactions is succeeded and
\* created within [start, end], whatever the source puts in its pages.
ResultSucceededAndInRange ==
    \A r \in Reqs :
        (IsExport(r) /\ fetched[r] # <<>>) =>
            \A i \in 1..Len(fetched[r][1]) :
                /\ fetched[r][1][i].status = "succeeded"
                /\ RangeStart(r) <= fetched[r][1][i].created
                /\ fetched[r][1][i].created <= RangeEnd(r)

\* Every record of every page lies within the created bounds of its call.
SourceHonoursCreated(r) ==
    \A i \in 1..Len(pages[r]) :
        \A j \in 1..Len(pages[r][i].data) :
            /\ calls[r][i].created.gte <= pages[r][i].data[j].created
            /\ pages[r][i].data[j].created <= calls[r][i].created.lte

\* C7 amended: every element returned is succeeded whatever the source puts in
\* its pages; it is created within [start, end] when every page honours the
\* created bounds of the call it answers, which are the range's whole-second
\* bounds on every call.
ResultSucceededAndInRangeIfHonoured ==
    \A r \in Reqs :
        /\ IsExport(r) =>
              \A i \in 1..Len(calls[r]) :
                  calls[r][i].created = [gte |-> RangeStart(r), lte |-> RangeEnd(r)]
        /\ (IsExport(r) /\ fetched[r] # <<>>) =>
              \A i \in 1..Len(fetched[r][1]) :
                  /\ fetched[r][1][i].status = "succeeded"
                  /\ SourceHonoursCreated(r) =>
                        /\ RangeStart(r) <= fetched[r][1][i].created
                        /\ fetched[r][1][i].created <= RangeEnd(r)

\* The source honoured the created bounds but returned a failed record next to
\* succeeded ones; the result is not empty.
SucceededWitness ==
    \E r \in Reqs :
        /\ IsExport(r)
        /\ fetched[r] # <<>>
        /\ fetched[r][1] # <<>>
        /\ SourceHonoursCreated(r)
        /\ \E i \in 1..Len(pages[r]) :
              \E j \in 1..Len(pages[r][i].data) :
                  pages[r][i].data[j].status # "succeeded"

\* C8: mapTransactionData on a charge lacking any subset of its optional nested
\* data raises nothing, and the columns read from an absent object have their
\* default; a charge with refunded = true and no first refund does not raise.
MappingNeverRaises ==
    mapOut.done =>
        /\ ~mapOut.raised
        /\ Len(mapOut.value) = 1
        /\ \A i \in 1..Len(mapOut.value[1]) :
              LET col == mapOut.value[1][i]
              IN /\ (mapIn.outcome = <<>> /\ col[1] = "Seller Message")
                      => col[2] = ""
                 /\ (mapIn.billing_details = <<>> /\ col[1] = "Customer Phone")
                      => col[2] = ""
                 /\ (mapIn.metadata = <<>> /\ col[1] = "Fund") => col[2] = ""
                 /\ (mapIn.shipping = <<>> /\ col[1] = "Shipping Name")
                      => col[2] = ""
                 /\ (mapIn.payment_method_details = <<>> /\ col[1] = "Card ID")
                      => col[2] = ""

\* C9: the first call carries no starting_after; every later call carries the
\* id of the last record of the page the preceding call returned.
CursorFollowsPrecedingPage ==
    \A r \in Reqs :
        IsExport(r) =>
            \A i \in 1..Len(calls[r]) :
                IF i = 1 THEN calls[r][i].starting_after = <<>>
                ELSE /\ Len(pages[r]) >= i - 1
                     /\ pages[r][i - 1].data # <<>>
                     /\ calls[r][i].starting_after =
                          <<pages[r][i - 1].data[Len(pages[r][i - 1].data)].id>>

\* A third call whose cursor is the last id of the second page, which differs
\* from the last id of the first page.
CursorWitness ==
    \E r \in Reqs :
        /\ IsExport(r)
        /\ Len(calls[r]) = 3
        /\ Len(pages[r][2].data) = 2
        /\ Last(pages[r][1].data).id # Last(pages[r][2].data).id
        /\ calls[r][3].starting_after = <<Last(pages[r][2].data).id>>
        /\ calls[r][2].starting_after = <<Last(pages[r][1].data).id>>

\* The cursor the pages ps leave behind: the last id of the last non-empty one.
RECURSIVE CursorOf(_)
CursorOf(ps) ==
    IF ps = <<>> THEN NoCursor
    ELSE IF Last(ps).data # <<>> THEN Last(Last(ps).data).id
         ELSE CursorOf(SubSeq(ps, 1, Len(ps) - 1))

\* C10: a request has at most one call outstanding, and its next call is issued
\* only once the preceding one was answered; with requests interleaved, each
\* export's charges, cursor and has-more flag are determined by the pages
\* returned to that request alone.
RequestsAreIsolated ==
    \A r \in Reqs :
        /\ Len(pending[r]) <= 1
        /\ Len(calls[r]) = Len(pages[r]) + Len(pending[r])
        /\ IsExport(r) =>
              /\ charges[r] = ConcatData(pages[r])
              /\ startingAfter[r] = CursorOf(pages[r])
              /\ hasMore[r] = IF pages[r] = <<>> THEN TRUE
                              ELSE IF ~Last(pages[r]).ok THEN TRUE
                                   ELSE Last(pages[r]).has_more
                                        /\ Last(pages[r]).data # <<>>

\* Two exports suspended at the same time, each having collected a different
\* record.
IsolationWitness ==
    /\ \A r \in Reqs : IsExport(r) /\ pc[r] = "awaiting" /\ Len(pending[r]) = 1
    /\ charges[1] # <<>>
    /\ charges[2] # <<>>
    /\ charges[1] # charges[2]

=============================================================================
